---- MODULE Spec2Model ----
(***************************************************************************)
(* Model of scripts/pixelfed_scraper.py: one run of main(), with the       *)
(* remote server as the environment.  Every HTTP exchange draws the        *)
(* server's answer from a bounded set of responses.                        *)
(*                                                                         *)
(* Conventions: Python None and every falsy identifier are the value None  *)
(* (0); durations are tenths of a second; list lengths saturate at         *)
(* MaxTotal so that an endless pagination is a cycle of the state graph.   *)
(***************************************************************************)
EXTENDS Integers, Sequences, FiniteSets, TLC

\* ---------------------------------------------------------------- constants
MAX_RETRIES == 3
\* RETRY_DELAY = 5 s, in tenths of a second
RETRY_DELAY == 50
\* RATE_LIMIT_DELAY = 1.5 s, in tenths of a second
RATE_LIMIT_DELAY == 15
\* "limit": 40 and the test len(posts) < 40
PageLimit == 40
\* Python None (also stands for any falsy identifier)
None == 0

\* ------------------------------------------------------------------- bounds
\* list lengths and image counts saturate here
MaxTotal == 100
\* Retry-After integer values range over -1..MaxRetryAfter (seconds)
MaxRetryAfter == 1
\* entries in an Atom feed
MaxEntries == 2
\* image URLs matched in a scraped profile page
MaxMatches == 3
\* accounts in a search result
MaxAccounts == 2
\* the page counter of get_posts_via_api saturates here
MaxPages == 4
\* posts in a list given to extract_images_from_posts
MaxPosts == 3
\* characters and entities in a text given to strip_html
MaxText == 3
\* entries of a feed parsed entry by entry
MaxFeed == 3
\* characters in the identifier of a feed entry
MaxId == 7
\* projects owned by the GitLab user
MaxProjects == 4
\* projects the GitLab server puts on one page
PerPage == 2
\* rows of the scholarship table
MaxRows == 2
\* runs of scholarship.py, one after the other
MaxRuns == 2
\* runs of lb_version.py, one after the other
MaxVersionRuns == 3
\* image URLs found in the profile page
MaxFound == 4

Min(a, b) == IF a < b THEN a ELSE b

\* ----------------------------------------------------------------- strings
\* Handles are sequences of characters so that str.lower() is computed.
USERNAME == <<"a", "b", "u">>

LowerChar(c) ==
  CASE c = "A" -> "a"
    [] c = "B" -> "b"
    [] c = "U" -> "u"
    [] OTHER -> c

Lower(s) == [i \in DOMAIN s |-> LowerChar(s[i])]

\* ------------------------------------------------------- server responses
\* Retry-After header: absent, an integer text, or a non-integer text
\* (an HTTP-date).
RA(k, v) == [kind |-> k, val |-> v]

RetryAfterHeaders ==
  {RA("absent", 0), RA("text", 0)} \cup {RA("int", v) : v \in -1..MaxRetryAfter}

\* An account object of a search result.  u is the "username" value;
\* ukind tells whether the key is a string, absent, null, or whether the
\* list element is not an object at all.
Acct(uk, u, hid, i) == [ukind |-> uk, u |-> u, hasId |-> hid, id |-> i]

SampleAccounts ==
  { Acct("str", <<"a", "b", "u">>, TRUE, 42),
    Acct("str", <<"A", "b", "U">>, TRUE, 43),
    Acct("str", <<"a", "b">>, TRUE, 44),
    Acct("str", <<"a", "b", "u">>, FALSE, 0),
    Acct("absent", <<>>, TRUE, 45),
    Acct("null", <<>>, TRUE, 46),
    Acct("nondict", <<>>, FALSE, 0) }

RECURSIVE SeqsUpTo(_, _)
SeqsUpTo(S, n) ==
  IF n = 0 THEN {<<>>}
  ELSE LET shorter == SeqsUpTo(S, n - 1)
       IN shorter \cup {Append(q, x) : q \in {r \in shorter : Len(r) = n - 1}, x \in S}

\* A decoded JSON body (or the reason there is none).
\*   kind: "blank"   empty response text
\*         "invalid" text that is not JSON
\*         "none"    (as a result only) Python None
\*         "empty"   JSON [] / {} / null / 0: a falsy value
\*         "number"  a non-zero JSON number
\*         "object"  a non-empty JSON object, with or without an "id" key
\*         "list"    a non-empty list: n items of one item kind
\*                   ("post": objects with "id", "noid": objects without,
\*                    "str": strings), last = id of the last item,
\*                   imgs = image-like attachments of each item
\*         "accts"   a non-empty list of account objects
Body(k, n, item, last, imgs, hid, i, accts) ==
  [kind |-> k, n |-> n, item |-> item, last |-> last, imgs |-> imgs,
   hasId |-> hid, id |-> i, accts |-> accts]

Simple(k) == Body(k, 0, "none", 0, 0, FALSE, 0, <<>>)

NoneResult == Simple("none")

PageSizes == {12, 39, PageLimit}
ItemIds == {0, 7, 9}
AccountIds == {0, 42}

Pages ==
  {Body("list", n, "post", l, i, FALSE, 0, <<>>) :
       n \in PageSizes, l \in ItemIds, i \in {0, 1}}
  \cup {Body("list", n, k, 0, 0, FALSE, 0, <<>>) :
       n \in PageSizes, k \in {"noid", "str"}}

Objects ==
  {Body("object", 1, "none", 0, 0, FALSE, 0, <<>>)}
  \cup {Body("object", 1, "none", 0, 0, TRUE, i, <<>>) : i \in AccountIds}

AccountLists ==
  {Body("accts", Len(a), "none", 0, 0, FALSE, 0, a) :
       a \in SeqsUpTo(SampleAccounts, MaxAccounts) \ {<<>>}}

CommonBodies ==
  {Simple("blank"), Simple("invalid"), Simple("empty"), Simple("number")}
  \cup Objects

Bodies(s) ==
  CASE s = "statuses" -> CommonBodies \cup Pages
    [] s = "lookup" -> CommonBodies \cup {Body("list", 12, "post", 7, 0, FALSE, 0, <<>>)}
    [] s = "search" -> CommonBodies \cup AccountLists

\* status 0 stands for "no response": connection error or timeout
Resp(st, ra, b) == [status |-> st, retry_after |-> ra, body |-> b]

ErrorStatuses == {400, 401, 403, 404, 500, 503}

Responses(s) ==
  {Resp(0, RA("absent", 0), Simple("blank"))}
  \cup {Resp(st, RA("absent", 0), Simple("blank")) : st \in ErrorStatuses}
  \cup {Resp(429, ra, Simple("blank")) : ra \in RetryAfterHeaders}
  \cup {Resp(200, RA("absent", 0), b) : b \in Bodies(s)}

NoResp == Resp(0, RA("absent", 0), Simple("blank"))

\* Python truthiness of a result of make_api_request
Truthy(b) == b.kind \notin {"none", "empty", "blank"}

\* ------------------------------------------------------------------- state
VARIABLES
  token,          \* ACCESS_TOKEN is set
  pc,             \* position in the run
  exc,            \* exception that ended the run, "none" otherwise
  account_id,     \* main: account_id
  gai_exit,       \* the method at which get_account_id returned ("none": not yet)
  posts,          \* main: posts, as [len, imgs, ok]
  method_used,    \* main: method_used
  cur,            \* strategy whose call is running (0: none)
  ret,            \* per strategy: "notcalled", "running", "empty", "nonempty"
  site,           \* caller of the running make_api_request
  attempt,        \* make_api_request: attempt
  req,            \* the last HTTP request issued
  resp,           \* the response being handled
  result,         \* value returned by the last make_api_request
  all_posts,      \* get_posts_via_api: all_posts, as [len, imgs, ok]
  max_id,         \* get_posts_via_api: max_id
  params_max_id,  \* get_posts_via_api: params["max_id"] (None: key absent)
  slept,          \* durations slept since the last HTTP request
  issued,         \* history: the [ep, by] of every request issued
  page,           \* get_posts_via_api: page
  served,         \* the feed answer the server holds (AnyFeed: not fixed)
  arg,            \* argument of the function under study (<<>>: none)
  out,            \* what the function has produced so far
  images,         \* main: len(images), None before extraction
  doc,            \* the output document on disk
  writes          \* number of times the output file was written

vars == <<token, pc, exc, account_id, gai_exit, posts, method_used, cur, ret, site,
          attempt, req, resp, result, all_posts, max_id, params_max_id,
          page, served, arg, out, slept, issued, images, doc, writes>>

\* a list of posts: its length, the image-like attachments it holds, and
\* whether every element is an object (dict)
PostList(l, i, o) == [len |-> l, imgs |-> i, ok |-> o]

EmptyList == PostList(0, 0, TRUE)

Request(e, b, a, m) == [ep |-> e, by |-> b, auth |-> a, max_id |-> m]

NoReq == Request("none", "none", FALSE, None)

NoDoc ==
  [written |-> FALSE, total_posts |-> 0, total_images |-> 0,
   method |-> "none", account_id |-> None]

Phase == IF cur = 0 THEN "resolve" ELSE <<"s1", "s2", "s3", "s4">>[cur]

\* the answer to the feed request: status 0 is a network error
FeedResponse(st, p, f) == [status |-> st, parseable |-> p, entries |-> f]

AnyFeed == FeedResponse(-1, FALSE, <<>>)

Init ==
  /\ token \in BOOLEAN
  /\ page = 1
  /\ served = AnyFeed
  /\ arg = <<>>
  /\ out = <<>>
  /\ pc = "start"
  /\ exc = "none"
  /\ account_id = None
  /\ gai_exit = "none"
  /\ posts = EmptyList
  /\ method_used = "none"
  /\ cur = 0
  /\ ret = [s \in 1..4 |-> "notcalled"]
  /\ site = "none"
  /\ attempt = 0
  /\ req = NoReq
  /\ resp = NoResp
  /\ result = NoneResult
  /\ all_posts = EmptyList
  /\ max_id = None
  /\ params_max_id = None
  /\ slept = <<>>
  /\ issued = {}
  /\ images = None
  /\ doc = NoDoc
  /\ writes = 0

\* ------------------------------------------------------------- get_headers
\* The Authorization header is present exactly when ACCESS_TOKEN is set.
HasAuthorization == token

\* An uncaught exception ends the run.
Raise(e) ==
  /\ pc' = "crashed"
  /\ exc' = e

\* -------------------------------------------------------- make_api_request
ReturnPc ==
  CASE site = "lookup" -> "gai_lookup_ret"
    [] site = "search" -> "gai_search_ret"
    [] site = "statuses" -> "gpa_ret"

MarReturn(v) ==
  /\ result' = v
  /\ pc' = ReturnPc
  /\ exc' = exc

\* the loop "for attempt in range(MAX_RETRIES)" moves to its next iteration,
\* or is exhausted and the function returns None
MarNextAttempt ==
  /\ attempt' = attempt + 1
  /\ IF attempt + 1 < MAX_RETRIES
       THEN /\ pc' = "mar_send"
            /\ UNCHANGED <<result, exc>>
       ELSE MarReturn(NoneResult)

\* the request that make_api_request sends: url, params and headers
NextRequest ==
  Request(site, Phase, HasAuthorization,
          IF site = "statuses" THEN params_max_id ELSE None)

\* requests.get(url, params=params, headers=headers, timeout=30)
MarSend ==
  /\ pc = "mar_send"
  /\ attempt < MAX_RETRIES
  /\ req' = NextRequest
  /\ issued' = issued \cup {<<site, Phase>>}
  /\ slept' = <<>>
  /\ \E r \in Responses(site) : resp' = r
  /\ pc' = "mar_resp"
  /\ UNCHANGED <<token, exc, account_id, gai_exit, posts, method_used, cur, ret,
                 site, attempt, result, all_posts, max_id, params_max_id, images, doc,
                 writes, page, served, arg, out>>

MarFrame ==
  UNCHANGED <<token, account_id, gai_exit, posts, method_used, cur, ret, site,
              req, resp, all_posts, max_id, params_max_id, issued, images, doc, writes,
              page, served, arg, out>>

\* mutant: the Retry-After header is ignored
RetryAfterSeconds_IgnoresHeader(ra) == RETRY_DELAY

\* status 429: int(Retry-After or RETRY_DELAY), sleep, continue
RetryAfterSeconds(ra) == IF ra.kind = "absent" THEN RETRY_DELAY ELSE 10 * ra.val

Mar429 ==
  /\ pc = "mar_resp"
  /\ resp.status = 429
  /\ IF resp.retry_after.kind = "text" \/ RetryAfterSeconds(resp.retry_after) < 0
       THEN \* int() of a non-integer text, or time.sleep() of a negative number
            /\ Raise("ValueError")
            /\ UNCHANGED <<attempt, result, slept>>
       ELSE /\ slept' = Append(slept, RetryAfterSeconds(resp.retry_after))
            /\ MarNextAttempt
  /\ MarFrame

\* status 401, 403, 404: return None
MarDefinitive ==
  /\ pc = "mar_resp"
  /\ resp.status \in {401, 403, 404}
  /\ MarReturn(NoneResult)
  /\ UNCHANGED <<attempt, slept>>
  /\ MarFrame

\* mutant: the last attempt is not told apart
Mar5xx_AlwaysSleeps ==
  /\ pc = "mar_resp"
  /\ resp.status >= 500
  /\ slept' = Append(slept, RETRY_DELAY)
  /\ MarNextAttempt
  /\ MarFrame

\* status >= 500: sleep and continue unless this was the last attempt
Mar5xx ==
  /\ pc = "mar_resp"
  /\ resp.status >= 500
  /\ IF attempt < MAX_RETRIES - 1
       THEN /\ slept' = Append(slept, RETRY_DELAY)
            /\ MarNextAttempt
       ELSE /\ MarReturn(NoneResult)
            /\ UNCHANGED <<attempt, slept>>
  /\ MarFrame

\* the except clause: a network error, the HTTPError of raise_for_status(),
\* or a body that is not JSON
MarCaught(r) ==
  \/ r.status = 0
  \/ r.status \in 400..499 /\ r.status \notin {401, 403, 404, 429}
  \/ r.status = 200 /\ r.body.kind = "invalid"

MarExcept ==
  /\ pc = "mar_resp"
  /\ MarCaught(resp)
  /\ IF attempt < MAX_RETRIES - 1
       THEN /\ slept' = Append(slept, RETRY_DELAY)
            /\ MarNextAttempt
       ELSE /\ MarReturn(NoneResult)
            /\ UNCHANGED <<attempt, slept>>
  /\ MarFrame

\* status 200: None for an empty text, the decoded JSON otherwise
MarOk ==
  /\ pc = "mar_resp"
  /\ resp.status = 200
  /\ resp.body.kind # "invalid"
  /\ MarReturn(IF resp.body.kind = "blank" THEN NoneResult ELSE resp.body)
  /\ UNCHANGED <<attempt, slept>>
  /\ MarFrame

\* a call of make_api_request from the given site
CallMar(s) ==
  /\ site' = s
  /\ attempt' = 0
  /\ pc' = "mar_send"

\* ---------------------------------------------- plain page and feed fetches
\* requests.get of the profile page or of the feed: status 0 stands for a
\* raised network error, which the caller's try/except catches.
FetchStatuses == {0, 200, 404, 503}

\* the request of a page or feed fetch
Fetch(e, b) ==
  /\ req' = Request(e, b, HasAuthorization, None)
  /\ issued' = issued \cup {<<e, b>>}
  /\ slept' = <<>>

\* ---------------------------------------- get_account_id_from_avatar_url
\* A profile page, as what each of the five patterns finds in it: the digits
\* of its first match, None when it does not match.
ProfilePages ==
  { <<0, 0, 0, 0, 0>>, <<42, 42, 0, 0, 0>>, <<0, 0, 43, 0, 42>>, <<0, 0, 0, 0, 44>> }

RECURSIVE FirstMatch(_, _)
FirstMatch(html, i) ==
  IF i > Len(html) THEN None
  ELSE IF html[i] # None THEN html[i]
  ELSE FirstMatch(html, i + 1)

ScrapedAccountId(status, html) ==
  IF status # 200 THEN None ELSE FirstMatch(html, 1)

\* ----------------------------------------------------------- get_account_id
\* the for loop over the search result: the first account whose username
\* equals the handle case-insensitively
RECURSIVE SearchOutcome(_, _)
SearchOutcome(accts, i) ==
  IF i > Len(accts) THEN [kind |-> "none", id |-> None, exc |-> "none"]
  ELSE LET a == accts[i] IN
    CASE a.ukind \in {"nondict", "null"} ->
           [kind |-> "raise", id |-> None, exc |-> "AttributeError"]
      [] a.ukind = "str" /\ Lower(a.u) = Lower(USERNAME) ->
           IF a.hasId THEN [kind |-> "found", id |-> a.id, exc |-> "none"]
           ELSE [kind |-> "raise", id |-> None, exc |-> "KeyError"]
      [] OTHER -> SearchOutcome(accts, i + 1)

GaiFrame ==
  UNCHANGED <<token, posts, method_used, cur, ret, resp, result, all_posts,
              max_id, params_max_id, images, doc, writes, page, served, arg, out>>

\* get_account_id returns v to main, from the return statement of method m
GaiReturn(m, v) ==
  /\ account_id' = v
  /\ gai_exit' = m
  /\ pc' = "main_sleep"
  /\ exc' = exc

\* mutant: the lookup is tried without a token
GaiEnter_IgnoresToken ==
  /\ pc = "start"
  /\ CallMar("lookup")
  /\ UNCHANGED <<exc, account_id, gai_exit, req, slept, issued>>
  /\ GaiFrame

\* main calls get_account_id; with a token the lookup comes first
GaiEnter ==
  /\ pc = "start"
  /\ IF token
       THEN CallMar("lookup")
       ELSE /\ pc' = "gai_scrape"
            /\ UNCHANGED <<site, attempt>>
  /\ UNCHANGED <<exc, account_id, gai_exit, req, slept, issued>>
  /\ GaiFrame

\* if result and "id" in result: return result["id"]; else the search
GaiLookupRet ==
  /\ pc = "gai_lookup_ret"
  /\ CASE result.kind = "number" ->
            /\ Raise("TypeError")
            /\ UNCHANGED <<account_id, gai_exit, site, attempt>>
       [] result.kind = "object" /\ result.hasId ->
            /\ GaiReturn("lookup", result.id)
            /\ UNCHANGED <<site, attempt>>
       [] OTHER ->
            /\ CallMar("search")
            /\ UNCHANGED <<exc, account_id, gai_exit>>
  /\ UNCHANGED <<req, slept, issued>>
  /\ GaiFrame

\* if result and isinstance(result, list): the loop over the accounts
GaiSearchRet ==
  /\ pc = "gai_search_ret"
  /\ LET o == IF result.kind = "accts" THEN SearchOutcome(result.accts, 1)
              ELSE [kind |-> "none", id |-> None, exc |-> "none"]
     IN CASE o.kind = "raise" ->
               /\ Raise(o.exc)
               /\ UNCHANGED <<account_id, gai_exit>>
          [] o.kind = "found" -> GaiReturn("search", o.id)
          [] OTHER ->
               /\ pc' = "gai_scrape"
               /\ UNCHANGED <<exc, account_id, gai_exit>>
  /\ UNCHANGED <<site, attempt, req, slept, issued>>
  /\ GaiFrame

\* account_id = get_account_id_from_avatar_url(instance, username)
GaiScrape ==
  /\ pc = "gai_scrape"
  /\ Fetch("profile", "resolve")
  /\ \E st \in FetchStatuses, html \in ProfilePages :
       GaiReturn("profile", ScrapedAccountId(st, html))
  /\ UNCHANGED <<site, attempt>>
  /\ GaiFrame

\* -------------------------------------------------------- get_posts_via_api
GpaFrame ==
  UNCHANGED <<token, account_id, gai_exit, posts, method_used, cur, ret, req,
              resp, result, issued, images, doc, writes, served, arg, out>>

\* mutant: the page replaces the list instead of extending it
Extended_Replaces(l, p) ==
  PostList(Min(p.n, MaxTotal),
           Min(IF p.kind = "list" THEN p.n * p.imgs ELSE 0, MaxTotal),
           p.kind = "list" /\ p.item # "str")

\* all_posts.extend(posts)
Extended(l, p) ==
  PostList(Min(l.len + p.n, MaxTotal),
           Min(l.imgs + (IF p.kind = "list" THEN p.n * p.imgs ELSE 0), MaxTotal),
           l.ok /\ p.kind = "list" /\ p.item # "str")

\* the head of the loop: set the cursor, call make_api_request
GpaRequest ==
  /\ pc = "gpa_loop"
  /\ params_max_id' = IF max_id # None THEN max_id ELSE params_max_id
  /\ CallMar("statuses")
  /\ UNCHANGED <<exc, all_posts, max_id, slept, page>>
  /\ GpaFrame

\* if not posts: break
GpaBreak ==
  /\ pc = "gpa_ret"
  /\ ~Truthy(result)
  /\ pc' = "gpa_done"
  /\ UNCHANGED <<exc, site, attempt, all_posts, max_id, params_max_id, slept, page>>
  /\ GpaFrame

\* a page of fewer than 40 items is added and ends the loop
GpaLastPage ==
  /\ pc = "gpa_ret"
  /\ result.kind \in {"list", "object"}
  /\ result.n < PageLimit
  /\ all_posts' = Extended(all_posts, result)
  /\ pc' = "gpa_done"
  /\ UNCHANGED <<exc, site, attempt, max_id, params_max_id, slept, page>>
  /\ GpaFrame

\* mutant: the cursor is not advanced
GpaNextPage_KeepsCursor ==
  /\ pc = "gpa_ret"
  /\ result.kind = "list"
  /\ result.n >= PageLimit
  /\ all_posts' = Extended(all_posts, result)
  /\ CASE result.item = "post" ->
            /\ max_id' = max_id
            /\ page' = Min(page + 1, MaxPages)
            /\ slept' = Append(slept, RATE_LIMIT_DELAY)
            /\ pc' = "gpa_loop"
            /\ exc' = exc
       [] result.item = "noid" ->
            /\ Raise("KeyError")
            /\ UNCHANGED <<max_id, slept, page>>
       [] OTHER ->
            /\ Raise("TypeError")
            /\ UNCHANGED <<max_id, slept, page>>
  /\ UNCHANGED <<site, attempt, params_max_id>>
  /\ GpaFrame

\* a full page is added; max_id = posts[-1]["id"]; sleep; next iteration
GpaNextPage ==
  /\ pc = "gpa_ret"
  /\ result.kind = "list"
  /\ result.n >= PageLimit
  /\ all_posts' = Extended(all_posts, result)
  /\ CASE result.item = "post" ->
            /\ max_id' = result.last
            /\ page' = Min(page + 1, MaxPages)
            /\ slept' = Append(slept, RATE_LIMIT_DELAY)
            /\ pc' = "gpa_loop"
            /\ exc' = exc
       [] result.item = "noid" ->
            /\ Raise("KeyError")
            /\ UNCHANGED <<max_id, slept, page>>
       [] OTHER ->
            /\ Raise("TypeError")
            /\ UNCHANGED <<max_id, slept, page>>
  /\ UNCHANGED <<site, attempt, params_max_id>>
  /\ GpaFrame

\* all_posts.extend(posts) of a number
GpaRaise ==
  /\ pc = "gpa_ret"
  /\ result.kind = "number"
  /\ Raise("TypeError")
  /\ UNCHANGED <<site, attempt, all_posts, max_id, params_max_id, slept, page>>
  /\ GpaFrame

\* -------------------------------------------------- get_posts_via_atom_feed
\* A MIME type is <<major, minor>>; <<>> is an absent attribute.
StartsWithImage(t) == Len(t) = 2 /\ t[1] = "image"

\* a media:content element; url None and medium "absent" are absent attributes
Media(u, t, m) == [url |-> u, type |-> t, medium |-> m]

\* a link rel="enclosure" element
Enclosure(h, t) == [href |-> h, type |-> t]

Entry(m, e) == [media |-> m, enc |-> e]

SampleEntries ==
  { Entry(<<>>, <<>>),
    Entry(<<Media(1, <<"image", "jpeg">>, "absent")>>, <<>>),
    Entry(<<Media(1, <<"video", "mp4">>, "absent")>>, <<>>),
    Entry(<<Media(1, <<"video", "mp4">>, "video")>>, <<>>),
    Entry(<<Media(1, <<>>, "image")>>,
          <<Enclosure(1, <<"image", "png">>), Enclosure(2, <<"image", "png">>)>>),
    Entry(<<Media(None, <<"image", "jpeg">>, "image")>>,
          <<Enclosure(2, <<"video", "mp4">>)>>) }

Feeds == SeqsUpTo(SampleEntries, MaxEntries)

\* the attachment URLs taken from the media:content elements
RECURSIVE MediaAttachments(_, _)
MediaAttachments(media, i) ==
  IF i > Len(media) THEN <<>>
  ELSE LET m == media[i]
           media_type == IF m.type = <<>> THEN <<"image", "jpeg">> ELSE m.type
           medium == IF m.medium = "absent" THEN "image" ELSE m.medium
           rest == MediaAttachments(media, i + 1)
       IN IF m.url # None /\ (medium = "image" \/ StartsWithImage(media_type))
            THEN <<m.url>> \o rest
            ELSE rest

\* the enclosure links added to the attachments found so far
RECURSIVE WithEnclosures(_, _, _)
WithEnclosures(att, enc, i) ==
  IF i > Len(enc) THEN att
  ELSE LET l == enc[i]
           seen == \E j \in DOMAIN att : att[j] = l.href
       IN IF l.href # None /\ StartsWithImage(l.type) /\ ~seen
            THEN WithEnclosures(Append(att, l.href), enc, i + 1)
            ELSE WithEnclosures(att, enc, i + 1)

EntryAttachments(e) == WithEnclosures(MediaAttachments(e.media, 1), e.enc, 1)

\* the posts kept from the entries: only those with media
RECURSIVE AtomPosts(_, _)
AtomPosts(feed, i) ==
  IF i > Len(feed) THEN EmptyList
  ELSE LET att == EntryAttachments(feed[i])
           rest == AtomPosts(feed, i + 1)
       IN IF Len(att) > 0
            THEN PostList(rest.len + 1, rest.imgs + Len(att), TRUE)
            ELSE rest

\* status other than 200, a network error or unparseable XML give []
AtomResult(status, parseable, feed) ==
  IF status # 200 \/ ~parseable THEN EmptyList ELSE AtomPosts(feed, 1)

\* the answers the feed request can get
FeedResponses ==
  {FeedResponse(st, p, f) : st \in FetchStatuses, p \in BOOLEAN, f \in Feeds}

FeedAnswers == IF served = AnyFeed THEN FeedResponses ELSE {served}

\* ---------------------------------------------------- scrape_posts_from_web
ImageUrls == {1, 2}

ScrapedPages == SeqsUpTo(ImageUrls, MaxMatches)

\* the matched URLs without repetitions, in order of first occurrence
RECURSIVE Distinct(_, _, _)
Distinct(imgs, i, seen) ==
  IF i > Len(imgs) THEN <<>>
  ELSE IF imgs[i] \in seen THEN Distinct(imgs, i + 1, seen)
  ELSE <<imgs[i]>> \o Distinct(imgs, i + 1, seen \cup {imgs[i]})

WebResult(status, imgs) ==
  IF status # 200 THEN EmptyList
  ELSE LET d == Distinct(imgs, 1, {}) IN PostList(Len(d), Len(d), TRUE)

\* ---------------------------------------------------------------------- main
MainFrame ==
  UNCHANGED <<token, gai_exit, site, attempt, resp, result, doc, writes,
              served, arg, out>>

\* time.sleep(RATE_LIMIT_DELAY) after get_account_id
MainSleep ==
  /\ pc = "main_sleep"
  /\ slept' = Append(slept, RATE_LIMIT_DELAY)
  /\ pc' = "s1"
  /\ UNCHANGED <<exc, account_id, posts, method_used, cur, ret, req, all_posts,
                 max_id, params_max_id, issued, images, page>>
  /\ MainFrame

\* posts = get_posts_via_api(...): the locals of the call
GpaEnter(s) ==
  /\ cur' = s
  /\ ret' = [ret EXCEPT ![s] = "running"]
  /\ all_posts' = EmptyList
  /\ max_id' = None
  /\ params_max_id' = None
  /\ page' = 1
  /\ pc' = "gpa_loop"

\* Method 1: if account_id and ACCESS_TOKEN
S1 ==
  /\ pc = "s1"
  /\ IF account_id # None /\ token
       THEN GpaEnter(1)
       ELSE /\ pc' = "s2"
            /\ UNCHANGED <<cur, ret, all_posts, max_id, params_max_id, page>>
  /\ UNCHANGED <<exc, account_id, posts, method_used, req, slept, issued, images>>
  /\ MainFrame

Outcome(l) == IF l.len > 0 THEN "nonempty" ELSE "empty"

\* the call of Method 1 returns: if posts: method_used = "api"
S1Ret ==
  /\ pc = "gpa_done"
  /\ cur = 1
  /\ posts' = all_posts
  /\ method_used' = IF all_posts.len > 0 THEN "api" ELSE method_used
  /\ ret' = [ret EXCEPT ![1] = Outcome(all_posts)]
  /\ cur' = 0
  /\ pc' = "s2"
  /\ UNCHANGED <<exc, account_id, req, all_posts, max_id, params_max_id, slept,
                 issued, images, page>>
  /\ MainFrame

\* mutant: Method 2 runs whatever Method 1 returned
S2_IgnoresPosts ==
  /\ pc = "s2"
  /\ IF account_id # None
       THEN GpaEnter(2)
       ELSE /\ pc' = "s3"
            /\ UNCHANGED <<cur, ret, all_posts, max_id, params_max_id, page>>
  /\ UNCHANGED <<exc, account_id, posts, method_used, req, slept, issued, images>>
  /\ MainFrame

\* mutant: Method 2 runs without an account id
S2_IgnoresAccountId ==
  /\ pc = "s2"
  /\ IF posts.len = 0
       THEN GpaEnter(2)
       ELSE /\ pc' = "s3"
            /\ UNCHANGED <<cur, ret, all_posts, max_id, params_max_id, page>>
  /\ UNCHANGED <<exc, account_id, posts, method_used, req, slept, issued, images>>
  /\ MainFrame

\* Method 2: if not posts and account_id
S2 ==
  /\ pc = "s2"
  /\ IF posts.len = 0 /\ account_id # None
       THEN GpaEnter(2)
       ELSE /\ pc' = "s3"
            /\ UNCHANGED <<cur, ret, all_posts, max_id, params_max_id, page>>
  /\ UNCHANGED <<exc, account_id, posts, method_used, req, slept, issued, images>>
  /\ MainFrame

\* mutant: Method 2 uses the label of Method 1
S2Ret_LabelsApi ==
  /\ pc = "gpa_done"
  /\ cur = 2
  /\ posts' = all_posts
  /\ method_used' = IF all_posts.len > 0 THEN "api" ELSE method_used
  /\ ret' = [ret EXCEPT ![2] = Outcome(all_posts)]
  /\ cur' = 0
  /\ pc' = "s3"
  /\ UNCHANGED <<exc, account_id, req, all_posts, max_id, params_max_id, slept,
                 issued, images, page>>
  /\ MainFrame

\* the call of Method 2 returns: if posts: method_used = "api_public"
S2Ret ==
  /\ pc = "gpa_done"
  /\ cur = 2
  /\ posts' = all_posts
  /\ method_used' = IF all_posts.len > 0 THEN "api_public" ELSE method_used
  /\ ret' = [ret EXCEPT ![2] = Outcome(all_posts)]
  /\ cur' = 0
  /\ pc' = "s3"
  /\ UNCHANGED <<exc, account_id, req, all_posts, max_id, params_max_id, slept,
                 issued, images, page>>
  /\ MainFrame

\* Method 3: if not posts: the Atom feed
S3 ==
  /\ pc = "s3"
  /\ IF posts.len = 0
       THEN /\ Fetch("atom", "s3")
            /\ \E f \in FeedAnswers :
                 LET r == AtomResult(f.status, f.parseable, f.entries) IN
                   /\ posts' = r
                   /\ method_used' = IF r.len > 0 THEN "atom_feed" ELSE method_used
                   /\ ret' = [ret EXCEPT ![3] = Outcome(r)]
       ELSE UNCHANGED <<posts, method_used, ret, req, slept, issued>>
  /\ pc' = "s4"
  /\ UNCHANGED <<exc, account_id, cur, all_posts, max_id, params_max_id, images,
                 page>>
  /\ MainFrame

\* mutant: the label is set whatever the scrape returned
S4_AlwaysLabels ==
  /\ pc = "s4"
  /\ IF posts.len = 0
       THEN /\ Fetch("page", "s4")
            /\ \E st \in FetchStatuses, imgs \in ScrapedPages :
                 LET r == WebResult(st, imgs) IN
                   /\ posts' = r
                   /\ method_used' = "web_scraping"
                   /\ ret' = [ret EXCEPT ![4] = Outcome(r)]
       ELSE UNCHANGED <<posts, method_used, ret, req, slept, issued>>
  /\ pc' = "extract"
  /\ UNCHANGED <<exc, account_id, cur, all_posts, max_id, params_max_id, images,
                 page>>
  /\ MainFrame

\* Method 4: if not posts: the profile page
S4 ==
  /\ pc = "s4"
  /\ IF posts.len = 0
       THEN /\ Fetch("page", "s4")
            /\ \E st \in FetchStatuses, imgs \in ScrapedPages :
                 LET r == WebResult(st, imgs) IN
                   /\ posts' = r
                   /\ method_used' = IF r.len > 0 THEN "web_scraping" ELSE method_used
                   /\ ret' = [ret EXCEPT ![4] = Outcome(r)]
       ELSE UNCHANGED <<posts, method_used, ret, req, slept, issued>>
  /\ pc' = "extract"
  /\ UNCHANGED <<exc, account_id, cur, all_posts, max_id, params_max_id, images,
                 page>>
  /\ MainFrame

\* images = extract_images_from_posts(posts): post.get(...) of an element
\* that is not an object raises AttributeError
Extract ==
  /\ pc = "extract"
  /\ IF posts.ok
       THEN /\ images' = posts.imgs
            /\ pc' = "save"
            /\ exc' = exc
       ELSE /\ Raise("AttributeError")
            /\ UNCHANGED images
  /\ UNCHANGED <<account_id, posts, method_used, cur, ret, req, all_posts,
                 max_id, params_max_id, slept, issued, page>>
  /\ MainFrame

\* mutant: the new counts are added to those of the existing file
Save_Merges ==
  /\ pc = "save"
  /\ doc' = [written |-> TRUE, total_posts |-> doc.total_posts + posts.len,
             total_images |-> doc.total_images + images,
             method |-> method_used, account_id |-> account_id]
  /\ writes' = writes + 1
  /\ pc' = "done"
  /\ UNCHANGED <<token, exc, account_id, gai_exit, posts, method_used, cur, ret,
                 site, attempt, req, resp, result, all_posts, max_id,
                 params_max_id, slept, issued, images, page, served, arg, out>>

\* save_json(output, OUTPUT_FILE): the file is opened with "w"
Save ==
  /\ pc = "save"
  /\ doc' = [written |-> TRUE, total_posts |-> posts.len, total_images |-> images,
             method |-> method_used, account_id |-> account_id]
  /\ writes' = writes + 1
  /\ pc' = "done"
  /\ UNCHANGED <<token, exc, account_id, gai_exit, posts, method_used, cur, ret,
                 site, attempt, req, resp, result, all_posts, max_id,
                 params_max_id, slept, issued, images, page, served, arg, out>>

Next ==
  \/ GaiEnter
  \/ GaiLookupRet
  \/ GaiSearchRet
  \/ GaiScrape
  \/ MainSleep
  \/ S1
  \/ S1Ret
  \/ S2
  \/ S2Ret
  \/ S3
  \/ S4
  \/ GpaRequest
  \/ GpaBreak
  \/ GpaLastPage
  \/ GpaNextPage
  \/ GpaRaise
  \/ MarSend
  \/ Mar429
  \/ MarDefinitive
  \/ Mar5xx
  \/ MarExcept
  \/ MarOk
  \/ Extract
  \/ Save

Spec == Init /\ [][Next]_vars

\* one run of the script: every step that can be taken is taken
FairSpec == Spec /\ WF_vars(Next)

TypeOK ==
  /\ pc \in {"start", "gai_lookup_ret", "gai_search_ret", "gai_scrape",
             "main_sleep", "s1", "s2", "s3", "s4", "gpa_loop", "gpa_ret",
             "gpa_done", "mar_send", "mar_resp", "extract", "save", "done",
             "crashed"}
  /\ attempt \in 0..MAX_RETRIES
  /\ cur \in 0..2
  /\ writes \in 0..1

\* ------------------------------------------- functions studied on their own
\* A specification of this kind starts with an argument drawn from a bounded
\* set, applies the function, and leaves the variables of the run alone.
RunVars ==
  <<token, exc, account_id, gai_exit, posts, method_used, cur, ret, site,
    attempt, req, resp, result, all_posts, max_id, params_max_id, page,
    served, slept, issued, images, doc, writes>>

NoRun ==
  /\ token = FALSE
  /\ exc = "none"
  /\ account_id = None
  /\ gai_exit = "none"
  /\ posts = EmptyList
  /\ method_used = "none"
  /\ cur = 0
  /\ ret = [s \in 1..4 |-> "notcalled"]
  /\ site = "none"
  /\ attempt = 0
  /\ req = NoReq
  /\ resp = NoResp
  /\ result = NoneResult
  /\ all_posts = EmptyList
  /\ max_id = None
  /\ params_max_id = None
  /\ page = 1
  /\ served = AnyFeed
  /\ slept = <<>>
  /\ issued = {}
  /\ images = None
  /\ doc = NoDoc
  /\ writes = 0

\* ------------------------------------------------ extract_images_from_posts
\* A media attachment: its id and its "type" ("absent": no such key).
Attachment(i, t) == [id |-> i, type |-> t]

\* A post: id, url and media_attachments.
Post(i, u, m) == [id |-> i, url |-> u, media |-> m]

SamplePosts ==
  { Post(1, 11, <<>>),
    Post(2, 12, <<Attachment(21, "image")>>),
    Post(3, 13, <<Attachment(31, "video")>>),
    Post(4, 14, <<Attachment(41, "gifv"), Attachment(42, "video"),
                  Attachment(43, "image")>>),
    Post(5, 15, <<Attachment(51, "absent"), Attachment(52, "audio")>>) }

PostLists == SeqsUpTo(SamplePosts, MaxPosts)

\* media.get("type", "image")
MediaType(a) == IF a.type = "absent" THEN "image" ELSE a.type

\* mutant: gifv is not taken for an image
Skipped_Gifv(a) == MediaType(a) # "image"

\* if media_type not in ["image", "gifv"]: continue
Skipped(a) == MediaType(a) \notin {"image", "gifv"}

\* the image record built from an attachment and its post
ImageRecord(post, a) == [id |-> a.id, post_id |-> post.id, post_url |-> post.url]

\* the inner loop: for media in attachments
RECURSIVE PostImages(_, _)
PostImages(post, j) ==
  IF j > Len(post.media) THEN <<>>
  ELSE IF Skipped(post.media[j]) THEN PostImages(post, j + 1)
  ELSE <<ImageRecord(post, post.media[j])>> \o PostImages(post, j + 1)

\* the outer loop: for post in posts
RECURSIVE ExtractImages(_, _)
ExtractImages(ps, i) ==
  IF i > Len(ps) THEN <<>>
  ELSE PostImages(ps[i], 1) \o ExtractImages(ps, i + 1)

ExtractInit ==
  /\ NoRun
  /\ pc = "call"
  /\ arg \in PostLists
  /\ out = <<>>

\* images = extract_images_from_posts(posts)
ExtractCall ==
  /\ pc = "call"
  /\ out' = ExtractImages(arg, 1)
  /\ pc' = "return"
  /\ UNCHANGED arg
  /\ UNCHANGED RunVars

ExtractNext == ExtractCall

ExtractSpec == ExtractInit /\ [][ExtractNext]_vars

\* --------------------------------------------------------------- strip_html
\* A text is a sequence of characters; an entity reference is kept as one
\* element, since none of its characters is "<", ">" or white space.
Chars == {"<", ">", "a", " ", "&lt;", "&gt;", "&amp;"}

Texts == SeqsUpTo(Chars, MaxText)

\* where the match of <[^>]+> that starts at i ends, 0 when there is none:
\* the next ">" must come after at least one other character
TagEnd(t, i) ==
  LET closers == {j \in (i + 1)..Len(t) : t[j] = ">"}
  IN IF closers = {} THEN 0
     ELSE LET j == CHOOSE k \in closers : \A l \in closers : k <= l
          IN IF j >= i + 2 THEN j ELSE 0

\* re.sub(r'<[^>]+>', ' ', text)
RECURSIVE RemoveTags(_, _)
RemoveTags(t, i) ==
  IF i > Len(t) THEN <<>>
  ELSE IF t[i] = "<" /\ TagEnd(t, i) # 0
    THEN <<" ">> \o RemoveTags(t, TagEnd(t, i) + 1)
    ELSE <<t[i]>> \o RemoveTags(t, i + 1)

\* html.unescape
Unescape(t) ==
  [k \in 1..Len(t) |->
     CASE t[k] = "&lt;" -> "<"
       [] t[k] = "&gt;" -> ">"
       [] t[k] = "&amp;" -> "&"
       [] OTHER -> t[k]]

\* re.sub(r'\s+', ' ', clean)
RECURSIVE CollapseSpaces(_, _)
CollapseSpaces(t, i) ==
  IF i > Len(t) THEN <<>>
  ELSE IF t[i] = " " /\ i > 1 /\ t[i - 1] = " "
    THEN CollapseSpaces(t, i + 1)
    ELSE <<t[i]>> \o CollapseSpaces(t, i + 1)

\* str.strip
RECURSIVE Strip(_)
Strip(t) ==
  IF t = <<>> THEN t
  ELSE IF Head(t) = " " THEN Strip(Tail(t))
  ELSE IF t[Len(t)] = " " THEN Strip(SubSeq(t, 1, Len(t) - 1))
  ELSE t

strip_html(text) ==
  IF text = <<>> THEN text
  ELSE Strip(CollapseSpaces(Unescape(RemoveTags(text, 1)), 1))

StripInit ==
  /\ NoRun
  /\ pc = "call"
  /\ arg \in Texts
  /\ out = <<>>

\* content_clean = strip_html(content)
StripCall ==
  /\ pc = "call"
  /\ out' = <<strip_html(arg)>>
  /\ pc' = "again"
  /\ UNCHANGED arg
  /\ UNCHANGED RunVars

\* the cleaner applied to its own output
StripAgain ==
  /\ pc = "again"
  /\ out' = Append(out, strip_html(out[1]))
  /\ pc' = "return"
  /\ UNCHANGED arg
  /\ UNCHANGED RunVars

StripNext ==
  \/ StripCall
  \/ StripAgain

StripSpec == StripInit /\ [][StripNext]_vars

\* ------------------------------------ get_posts_via_atom_feed, entry by entry
\* arg holds the entries still to be visited, out the media_attachments of
\* the posts appended so far.
AtomInit ==
  /\ NoRun
  /\ pc = "loop"
  /\ arg \in SeqsUpTo(SampleEntries, MaxFeed)
  /\ out = <<>>

\* one pass of: for entry in entries
AtomEntry ==
  /\ pc = "loop"
  /\ arg # <<>>
  /\ LET att == EntryAttachments(Head(arg))
     IN out' = IF Len(att) > 0 THEN Append(out, att) ELSE out
  /\ arg' = Tail(arg)
  /\ UNCHANGED pc
  /\ UNCHANGED RunVars

\* return all_posts
AtomReturn ==
  /\ pc = "loop"
  /\ arg = <<>>
  /\ pc' = "return"
  /\ UNCHANGED <<arg, out>>
  /\ UNCHANGED RunVars

AtomNext ==
  \/ AtomEntry
  \/ AtomReturn

AtomSpec == AtomInit /\ [][AtomNext]_vars

\* ------------------------------------------- the run from strategy 3 onwards
\* The run is taken up where main reaches strategy 3 with no posts: either
\* strategies 1 and 2 were skipped (no token, no account id), or both were
\* called and returned nothing.  served is the answer the feed request will
\* get, arg the content of the output file left by an earlier run.
OldDoc ==
  [written |-> TRUE, total_posts |-> 92, total_images |-> 92,
   method |-> "api", account_id |-> 42]

BothSkipped ==
  /\ token = FALSE
  /\ account_id = None
  /\ gai_exit = "profile"
  /\ ret = [s \in 1..4 |-> "notcalled"]
  /\ site = "none"
  /\ req = Request("profile", "resolve", FALSE, None)
  /\ resp = NoResp
  /\ issued = {<<"profile", "resolve">>}
  /\ slept = <<RATE_LIMIT_DELAY>>

BothEmpty ==
  /\ token = TRUE
  /\ account_id = 42
  /\ gai_exit = "lookup"
  /\ ret = <<"empty", "empty", "notcalled", "notcalled">>
  /\ site = "statuses"
  /\ req = Request("statuses", "s2", TRUE, None)
  /\ resp = Resp(200, RA("absent", 0), Simple("blank"))
  /\ issued = {<<"lookup", "resolve">>, <<"statuses", "s1">>, <<"statuses", "s2">>}
  /\ slept = <<>>

FeedRunInit ==
  /\ BothSkipped \/ BothEmpty
  /\ pc = "s3"
  /\ exc = "none"
  /\ posts = EmptyList
  /\ method_used = "none"
  /\ cur = 0
  /\ attempt = 0
  /\ result = NoneResult
  /\ all_posts = EmptyList
  /\ max_id = None
  /\ params_max_id = None
  /\ page = 1
  /\ images = None
  /\ writes = 0
  /\ out = <<>>
  /\ served \in FeedResponses
  /\ arg \in {NoDoc, OldDoc}
  /\ doc = arg

FeedRunNext ==
  \/ S3
  \/ S4
  \/ Extract
  \/ Save

FeedRunSpec == FeedRunInit /\ [][FeedRunNext]_vars

\* ------------------------- extract_images_from_posts, the text of the post
\* The "content" of a post: a text, None (null), or no such key at all.
TextValue(t) == [kind |-> "text", text |-> t]

NoneValue == [kind |-> "none", text |-> <<>>]

AbsentKey == [kind |-> "absent", text |-> <<>>]

Contents == {AbsentKey, NoneValue} \cup {TextValue(t) : t \in Texts}

\* post_content and post_content_html of the image records of a post
ContentFields(c) ==
  LET content == IF c = AbsentKey THEN TextValue(<<>>) ELSE c
      content_clean == IF content.kind = "text" /\ content.text # <<>>
                         THEN TextValue(strip_html(content.text))
                         ELSE NoneValue
  IN [post_content |-> content_clean,
      post_content_html |-> IF content # content_clean THEN content ELSE NoneValue]

ContentInit ==
  /\ NoRun
  /\ pc = "call"
  /\ arg \in Contents
  /\ out = <<>>

\* the text fields of the record built for an attachment of the post
ContentCall ==
  /\ pc = "call"
  /\ out' = ContentFields(arg)
  /\ pc' = "return"
  /\ UNCHANGED arg
  /\ UNCHANGED RunVars

ContentNext == ContentCall

ContentSpec == ContentInit /\ [][ContentNext]_vars

\* ------------------------------ get_posts_via_atom_feed, the id of an entry
\* The text of the id element is a sequence of characters: "/", the letter
\* "p" and the digit "7".  The empty text stands for a missing or empty id
\* element, and the empty result for a post id left at None.
IdChars == {"/", "p", "7"}

IdTexts == SeqsUpTo(IdChars, MaxId)

IsDigit(c) == c = "7"

\* the end of the run of [^/] characters that starts at i (i - 1: no run)
RECURSIVE RunEnd(_, _)
RunEnd(t, i) ==
  IF i > Len(t) \/ t[i] = "/" THEN i - 1 ELSE RunEnd(t, i + 1)

\* the end of the run of digits that starts at i (i - 1: no run)
RECURSIVE DigitsEnd(_, _)
DigitsEnd(t, i) ==
  IF i > Len(t) \/ ~IsDigit(t[i]) THEN i - 1 ELSE DigitsEnd(t, i + 1)

\* whether /p/[^/]+/(\d+) matches at position i
MatchesAt(t, i) ==
  /\ i + 2 <= Len(t)
  /\ t[i] = "/" /\ t[i + 1] = "p" /\ t[i + 2] = "/"
  /\ LET h == RunEnd(t, i + 3)
     IN /\ h >= i + 3
        /\ h + 2 <= Len(t)
        /\ t[h + 1] = "/"
        /\ IsDigit(t[h + 2])

\* mutant: the group takes one digit only
Group1_OneDigit(t, i) ==
  LET h == RunEnd(t, i + 3) IN SubSeq(t, h + 2, h + 2)

\* id_match.group(1) of the match at position i
Group1(t, i) ==
  LET h == RunEnd(t, i + 3) IN SubSeq(t, h + 2, DigitsEnd(t, h + 2))

\* post["id"] after the id element has been read
EntryId(text) ==
  IF text = <<>> THEN <<>>
  ELSE LET found == {i \in 1..Len(text) : MatchesAt(text, i)}
       IN IF found = {} THEN text
          ELSE Group1(text, CHOOSE i \in found : \A j \in found : i <= j)

IdInit ==
  /\ NoRun
  /\ pc = "call"
  /\ arg \in IdTexts
  /\ out = <<>>

\* the id part of one pass of the entry loop
IdCall ==
  /\ pc = "call"
  /\ out' = EntryId(arg)
  /\ pc' = "return"
  /\ UNCHANGED arg
  /\ UNCHANGED RunVars

IdNext == IdCall

IdSpec == IdInit /\ [][IdNext]_vars

\* ----------------------------------------------------- bulk_delete_GL_repos
\* arg holds the projects the user owns, which the server hands out PerPage
\* at a time; out holds the locals of the script and the requests it has
\* made: projects, page, the index i of the project loop, the ids of the
\* DELETE requests issued and their answers (status 0: the request raised),
\* whether a page request was refused and whether the empty page was seen.
KEEP_REPOS == <<"repo-to-keep-1", "repo-to-keep-2">>

Project(n, i) == [name |-> n, id |-> i]

SampleProjects ==
  { Project("repo-to-keep-1", 1), Project("repo-to-keep-2", 2),
    Project("site", 3), Project("notes", 4) }

OwnedProjects ==
  {l \in SeqsUpTo(SampleProjects, Min(MaxProjects, Cardinality(SampleProjects))) :
     \A a \in DOMAIN l, b \in DOMAIN l : l[a] = l[b] => a = b}

\* the data of page n of the project list
PageData(owned, n) ==
  SubSeq(owned, Min((n - 1) * PerPage + 1, Len(owned) + 1),
                Min(n * PerPage, Len(owned)))

PageStatuses == {200, 401, 500}

DeleteStatuses == {202, 404, 500}

GlLocals(pr, pg, i, d, a, f, c) ==
  [projects |-> pr, page |-> pg, i |-> i, deletes |-> d, answers |-> a,
   failed |-> f, complete |-> c]

GlInit ==
  /\ NoRun
  /\ pc = "fetch"
  /\ arg \in OwnedProjects
  /\ out = GlLocals(<<>>, 1, 1, <<>>, <<>>, FALSE, FALSE)

GlFrame ==
  /\ UNCHANGED arg
  /\ UNCHANGED RunVars

\* mutant: the projects fetched so far are returned when a page is refused
GlFetchRefused_KeepsPages ==
  /\ pc = "fetch"
  /\ \E st \in PageStatuses \ {200} :
       out' = [out EXCEPT !.failed = TRUE]
  /\ pc' = IF out.projects = <<>> THEN "done" ELSE "loop"
  /\ GlFrame

\* a page request answered with a status other than 200: get_all_projects
\* returns [] and main returns
GlFetchRefused ==
  /\ pc = "fetch"
  /\ \E st \in PageStatuses \ {200} :
       out' = [out EXCEPT !.projects = <<>>, !.failed = TRUE]
  /\ pc' = "done"
  /\ GlFrame

\* a page with projects: projects.extend(data); page += 1
GlFetchPage ==
  /\ pc = "fetch"
  /\ PageData(arg, out.page) # <<>>
  /\ out' = [out EXCEPT !.projects = out.projects \o PageData(arg, out.page),
                        !.page = out.page + 1]
  /\ UNCHANGED pc
  /\ GlFrame

\* the empty page: break, return projects; main returns when there are none
GlFetchEmpty ==
  /\ pc = "fetch"
  /\ PageData(arg, out.page) = <<>>
  /\ out' = [out EXCEPT !.complete = TRUE]
  /\ pc' = IF out.projects = <<>> THEN "done" ELSE "loop"
  /\ GlFrame

\* requests.get raises: nothing catches it
GlFetchRaises ==
  /\ pc = "fetch"
  /\ pc' = "crashed"
  /\ UNCHANGED out
  /\ GlFrame

\* name in KEEP_REPOS
Kept(name) == \E k \in DOMAIN KEEP_REPOS : KEEP_REPOS[k] = name

\* print(f"Skipping {name} (kept)")
GlSkip ==
  /\ pc = "loop"
  /\ out.i <= Len(out.projects)
  /\ Kept(out.projects[out.i].name)
  /\ out' = [out EXCEPT !.i = out.i + 1]
  /\ UNCHANGED pc
  /\ GlFrame

\* delete_project(project_id, name): whatever the status, the loop goes on;
\* a request that raises ends the run
GlDelete ==
  /\ pc = "loop"
  /\ out.i <= Len(out.projects)
  /\ ~Kept(out.projects[out.i].name)
  /\ \E st \in DeleteStatuses \cup {0} :
       /\ out' = [out EXCEPT !.i = out.i + 1,
                             !.deletes = Append(out.deletes, out.projects[out.i].id),
                             !.answers = Append(out.answers, st)]
       /\ pc' = IF st = 0 THEN "crashed" ELSE pc
  /\ GlFrame

\* the end of the project loop
GlFinish ==
  /\ pc = "loop"
  /\ out.i > Len(out.projects)
  /\ pc' = "done"
  /\ UNCHANGED out
  /\ GlFrame

GlNext ==
  \/ GlFetchRefused
  \/ GlFetchPage
  \/ GlFetchEmpty
  \/ GlFetchRaises
  \/ GlSkip
  \/ GlDelete
  \/ GlFinish

GlSpec == GlInit /\ [][GlNext]_vars

\* -------------------------------------------------------------- scholarship
\* arg holds what the runs find: the rows of the table and the lines that
\* sent_notices.txt had before the first run.  A row is its document link
\* after the prefixing of lines 66-71 ("": no link) and its status; status
\* "short" is a row with fewer than four cells.  out holds the file, the
\* locals sent_notices and the row index i of the run, the number of the run,
\* and the log of the calls of send_pdf_to_telegram with their outcome.
Row(l, st) == [link |-> l, status |-> st]

SampleRows ==
  { Row("a", "today"), Row("b", "today"), Row("a", "past"),
    Row("", "today"), Row("", "short") }

Tables == SeqsUpTo(SampleRows, MaxRows)

SentFiles == {<<>>, <<"a">>}

\* the outcomes of send_pdf_to_telegram: the download raises (False), the
\* post is answered not ok (False), answered ok (True), or the post raises
SendOutcomes == {"download_raises", "refused", "ok", "post_raises"}

Lines(f) == {f[k] : k \in DOMAIN f}

SchLocals(f, sn, i, r, l) ==
  [file |-> f, sent_notices |-> sn, i |-> i, run |-> r, log |-> l]

SchInit ==
  /\ NoRun
  /\ pc = "start"
  /\ arg \in [rows : Tables, file : SentFiles]
  /\ out = SchLocals(arg.file, {}, 1, 1, <<>>)

SchFrame ==
  /\ UNCHANGED arg
  /\ UNCHANGED RunVars

\* the page cannot be fetched or has no table: the run returns
SchNoTable ==
  /\ pc = "start"
  /\ pc' = "end"
  /\ UNCHANGED out
  /\ SchFrame

\* rows = tbody.find_all('tr'); sent_notices = load_sent_notices()
SchLoad ==
  /\ pc = "start"
  /\ out' = [out EXCEPT !.sent_notices = Lines(out.file), !.i = 1]
  /\ pc' = "rows"
  /\ SchFrame

\* status == 'Published today' and doc_link and doc_link not in sent_notices
ToSend(row, sent_notices) ==
  /\ row.status = "today"
  /\ row.link # ""
  /\ row.link \notin sent_notices

\* a row that is not sent
SchSkip ==
  /\ pc = "rows"
  /\ out.i <= Len(arg.rows)
  /\ ~ToSend(arg.rows[out.i], out.sent_notices)
  /\ out' = [out EXCEPT !.i = out.i + 1]
  /\ UNCHANGED pc
  /\ SchFrame

\* mutant: the link is recorded whenever the call returns
Recorded_Always(o) == o # "post_raises"

\* if send_pdf_to_telegram(doc_link, caption): save_sent_notice(doc_link)
Recorded(o) == o = "ok"

\* a row that is sent: the call, and the append to the file when it succeeded
SchSend ==
  /\ pc = "rows"
  /\ out.i <= Len(arg.rows)
  /\ ToSend(arg.rows[out.i], out.sent_notices)
  /\ \E o \in SendOutcomes :
       LET link == arg.rows[out.i].link IN
         /\ out' = [out EXCEPT
                      !.i = out.i + 1,
                      !.log = Append(out.log, [link |-> link, outcome |-> o,
                                               run |-> out.run]),
                      !.file = IF Recorded(o) THEN Append(out.file, link)
                               ELSE out.file]
         /\ pc' = IF o = "post_raises" THEN "crashed" ELSE pc
  /\ SchFrame

\* the end of the row loop
SchEnd ==
  /\ pc = "rows"
  /\ out.i > Len(arg.rows)
  /\ pc' = "end"
  /\ UNCHANGED out
  /\ SchFrame

\* the scheduler starts the script again
SchAgain ==
  /\ pc \in {"end", "crashed"}
  /\ out.run < MaxRuns
  /\ out' = [out EXCEPT !.run = out.run + 1, !.sent_notices = {}, !.i = 1]
  /\ pc' = "start"
  /\ SchFrame

SchNext ==
  \/ SchNoTable
  \/ SchLoad
  \/ SchSkip
  \/ SchSend
  \/ SchEnd
  \/ SchAgain

SchSpec == SchInit /\ [][SchNext]_vars

\* --------------------------------------------------------------- lb_version
\* arg holds files/minor_version.txt as it is before the first run; out
\* holds the file, the number of runs made, the date of the last run and the
\* major and minor version it returned, with the major version of the run
\* before.  A file is a text, a sequence of characters, or does not exist.
File(e, t) == [exists |-> e, text |-> t]

NoFile == File(FALSE, <<>>)

DigitChars == <<"0", "1", "2", "3", "4", "5", "6", "7", "8", "9">>

DigitValue(c) == (CHOOSE k \in DOMAIN DigitChars : DigitChars[k] = c) - 1

IsDigitChar(c) == \E k \in DOMAIN DigitChars : DigitChars[k] = c

\* whether int() accepts the text: an optional sign, then digits
IsInteger(t) ==
  LET d == IF t # <<>> /\ Head(t) = "-" THEN Tail(t) ELSE t
  IN d # <<>> /\ \A k \in DOMAIN d : IsDigitChar(d[k])

\* int() of digits
RECURSIVE DigitsValue(_)
DigitsValue(d) ==
  IF d = <<>> THEN 0
  ELSE 10 * DigitsValue(SubSeq(d, 1, Len(d) - 1)) + DigitValue(d[Len(d)])

\* int(content)
IntOf(t) == IF Head(t) = "-" THEN 0 - DigitsValue(Tail(t)) ELSE DigitsValue(t)

\* str() of a natural number
RECURSIVE NatStr(_)
NatStr(n) ==
  IF n < 10 THEN <<DigitChars[n + 1]>>
  ELSE Append(NatStr(n \div 10), DigitChars[(n % 10) + 1])

\* str(minor_version)
StrOf(n) == IF n < 0 THEN <<"-">> \o NatStr(0 - n) ELSE NatStr(n)

StoredFiles ==
  { NoFile, File(TRUE, <<>>), File(TRUE, <<" ">>), File(TRUE, <<"x">>),
    File(TRUE, <<"1", "x">>), File(TRUE, <<"9">>), File(TRUE, <<"1", "9", " ">>),
    File(TRUE, <<"-", "1">>) }

Years == 2024..2026

Months == 1..12

\* (now.year - 2025) * 4 + (now.month - 1) // 3 + 1
MajorVersion(year, month) == (year - 2025) * 4 + (month - 1) \div 3 + 1

\* mutant: the minor version starts over at every run
MinorVersion_StartsOver(f) == 1

\* the try block: FileNotFoundError, empty content and ValueError give 1
MinorVersion(f) ==
  IF ~f.exists THEN 1
  ELSE LET content == Strip(f.text)
       IN IF content = <<>> THEN 1
          ELSE IF IsInteger(content) THEN IntOf(content) + 1
          ELSE 1

VersionInit ==
  /\ NoRun
  /\ pc = "idle"
  /\ arg \in StoredFiles
  /\ out = [file |-> arg, runs |-> 0, year |-> 0, month |-> 0,
            major |-> 0, minor |-> 0, last_major |-> 0]

\* print(calculate_version())
VersionRun ==
  /\ pc = "idle"
  /\ out.runs < MaxVersionRuns
  /\ \E y \in Years, m \in Months :
       out' = [file |-> File(TRUE, StrOf(MinorVersion(out.file))),
               runs |-> out.runs + 1, year |-> y, month |-> m,
               major |-> MajorVersion(y, m),
               minor |-> MinorVersion(out.file),
               last_major |-> out.major]
  /\ UNCHANGED <<pc, arg>>
  /\ UNCHANGED RunVars

VersionNext == VersionRun

VersionSpec == VersionInit /\ [][VersionNext]_vars

\* -------------------------------- scrape_posts_from_web, the loop over images
\* arg holds the list that re.findall returns for the image pattern; out
\* holds all_posts, seen_images and the position i of the loop.
FoundLists == SeqsUpTo({1, 2, 3}, MaxFound)

\* the post built for an image URL
WebPost(img_url) ==
  [id |-> None, url |-> None, content |-> None, created_at |-> None,
   media |-> <<[id |-> None, type |-> "image", url |-> img_url]>>]

WebInit ==
  /\ NoRun
  /\ pc = "loop"
  /\ arg \in FoundLists
  /\ out = [all_posts |-> <<>>, seen_images |-> {}, i |-> 1]

\* mutant: no URL counts as seen
Seen_Never(img_url, seen_images) == FALSE

\* if img_url in seen_images: continue
Seen(img_url, seen_images) == img_url \in seen_images

\* one pass of: for img_url in images
WebImage ==
  /\ pc = "loop"
  /\ out.i <= Len(arg)
  /\ LET img_url == arg[out.i]
     IN out' = IF Seen(img_url, out.seen_images)
                 THEN [out EXCEPT !.i = out.i + 1]
                 ELSE [all_posts |-> Append(out.all_posts, WebPost(img_url)),
                       seen_images |-> out.seen_images \cup {img_url},
                       i |-> out.i + 1]
  /\ UNCHANGED <<pc, arg>>
  /\ UNCHANGED RunVars

\* return all_posts
WebReturn ==
  /\ pc = "loop"
  /\ out.i > Len(arg)
  /\ pc' = "return"
  /\ UNCHANGED <<arg, out>>
  /\ UNCHANGED RunVars

WebNext ==
  \/ WebImage
  \/ WebReturn

WebSpec == WebInit /\ [][WebNext]_vars

\* ------------------------------------------------------------------ claims
Issued(e, b) == <<e, b>> \in issued

\* C1: the strategies run in the order 1, 2, 3, 4, a strategy is invoked only
\* if every strategy invoked before it returned an empty list, and once
\* strategy 1 has returned a post no statuses request of strategy 2, no feed
\* fetch and no page scrape is made.
C1_FallbackOrder ==
  /\ \A s \in 1..4 : ret[s] # "notcalled" =>
        \A t \in 1..(s - 1) : ret[t] \in {"notcalled", "empty"}
  /\ ret[1] = "nonempty" =>
        /\ \A s \in 2..4 : ret[s] = "notcalled"
        /\ ~Issued("statuses", "s2")
        /\ ~Issued("atom", "s3")
        /\ ~Issued("page", "s4")

C1_Witness ==
  /\ pc = "done"
  /\ ret[1] = "nonempty"
  /\ Issued("statuses", "s1")

\* C2: within one call of get_posts_via_api a page of well-formed posts is
\* followed by another request exactly when it holds 40 items or more, the
\* call returning right after a shorter page; and a request that follows a
\* page carries as max_id the id of that page's last item.
ValidPage(b) == b.kind = "list" /\ b.item = "post" /\ b.last # None

C2_Pagination ==
  [][ /\ (pc = "gpa_ret" /\ ValidPage(result)) =>
           /\ (result.n >= PageLimit => pc' = "gpa_loop")
           /\ (result.n < PageLimit => pc' = "gpa_done")
      /\ (pc = "gpa_done") => pc' \notin {"gpa_loop", "mar_send"}
      /\ (pc = "mar_send" /\ pc' = "mar_resp" /\ site = "statuses"
            /\ all_posts.len > 0 /\ ValidPage(result)) =>
           req'.max_id = result.last ]_vars

C2_Witness ==
  /\ pc = "gpa_done"
  /\ all_posts.len = 2 * PageLimit + 12
  /\ req.max_id = 9
  /\ ValidPage(result)

\* C3: no exception raised during account resolution, a strategy or the
\* retry helper propagates to main(): the run never ends by an exception.
C3_NoException == pc # "crashed"

\* C4: every run eventually completes, having written the output file
\* exactly once, whatever the server answers: no server behaviour keeps the
\* run looping forever before the write.  (A run ended by an exception is
\* the subject of C3 and is set aside here.)
C4_RunCompletes == <>((pc = "done" /\ writes = 1) \/ pc = "crashed")

\* C5: when all four strategies returned an empty list the run goes on to
\* extraction and saving without an exception, and the document it writes
\* has total_posts = 0, total_images = 0 and method "none".
AllFourEmpty == \A s \in 1..4 : ret[s] = "empty"

C5_EmptyRun ==
  AllFourEmpty =>
    /\ pc \in {"extract", "save", "done"}
    /\ exc = "none"
    /\ pc = "done" =>
         /\ writes = 1
         /\ doc.written
         /\ doc.total_posts = 0
         /\ doc.total_images = 0
         /\ doc.method = "none"

C5_Witness ==
  /\ AllFourEmpty
  /\ pc = "done"
  /\ doc.written

\* C6: in a written document the method label names the strategy whose call
\* produced the retained posts (the last strategy invoked, which returned a
\* non-empty list), and it is "none" exactly when total_posts = 0.
Invoked == {s \in 1..4 : ret[s] \in {"empty", "nonempty"}}

Producer == IF Invoked = {} THEN 0 ELSE CHOOSE s \in Invoked : \A t \in Invoked : t <= s

LabelOf(s) == <<"api", "api_public", "atom_feed", "web_scraping">>[s]

C6_MethodLabel ==
  doc.written =>
    /\ \A s \in 1..4 :
         doc.method = LabelOf(s) => (Producer = s /\ ret[s] = "nonempty")
    /\ doc.method \in {"none"} \cup {LabelOf(s) : s \in 1..4}
    /\ doc.method = "none" <=> doc.total_posts = 0
    /\ doc.total_posts = posts.len

C6_Witness ==
  /\ doc.written
  /\ token
  /\ doc.method = "api_public"
  /\ ret[1] = "empty"
  /\ doc.total_posts = PageLimit + 12

\* C7: with a token, account resolution tries the lookup, then the search
\* (taking the first account whose username equals the handle
\* case-insensitively), then the profile page; a method issues a request
\* only after the methods before it returned no identifier, and no method
\* after the one that returned issues a request.  Without a token only the
\* profile page is requested.
EqualsIgnoringCase(a, b) ==
  /\ Len(a) = Len(b)
  /\ \A i \in 1..Len(a) : LowerChar(a[i]) = LowerChar(b[i])

IsMatch(a) == a.ukind = "str" /\ EqualsIgnoringCase(a.u, USERNAME)

C7_ResolutionOrder ==
  /\ ~token => ~Issued("lookup", "resolve") /\ ~Issued("search", "resolve")
  /\ Issued("search", "resolve") => Issued("lookup", "resolve")
  /\ (token /\ Issued("profile", "resolve")) =>
        Issued("lookup", "resolve") /\ Issued("search", "resolve")
  /\ gai_exit = "lookup" =>
        ~Issued("search", "resolve") /\ ~Issued("profile", "resolve")
  /\ gai_exit = "search" => ~Issued("profile", "resolve")
  /\ (gai_exit = "search" /\ pc = "main_sleep") =>
        \E i \in 1..Len(result.accts) :
          /\ IsMatch(result.accts[i])
          /\ account_id = result.accts[i].id
          /\ \A j \in 1..(i - 1) : ~IsMatch(result.accts[j])

C7_Witness ==
  /\ gai_exit = "search"
  /\ pc = "main_sleep"
  /\ account_id = 43
  /\ Len(result.accts) = 2

\* C8: when get_account_id returned no identifier, no request is made to
\* the statuses endpoint, strategies 1 and 2 are not invoked, and the Atom
\* feed strategy is the one invoked.
C8_NoAccountId ==
  (gai_exit # "none" /\ account_id = None) =>
    /\ ~Issued("statuses", "s1")
    /\ ~Issued("statuses", "s2")
    /\ ret[1] = "notcalled"
    /\ ret[2] = "notcalled"
    /\ pc # "crashed"
    /\ pc \in {"s4", "extract", "save", "done"} =>
         ret[3] # "notcalled" /\ Issued("atom", "s3")

C8_Witness ==
  /\ gai_exit = "profile"
  /\ account_id = None
  /\ token
  /\ pc = "done"

\* C9: no request made by strategy 2 carries an Authorization header.
C9_Strategy2NoCredentials == req.by = "s2" => ~req.auth

\* C10 (as stated): every 429 response with an absent or non-negative
\* integer Retry-After is followed by a sleep of that many seconds
\* (RETRY_DELAY when absent) and then by the same request again.
UsableRetryAfter(ra) == ra.kind = "absent" \/ (ra.kind = "int" /\ ra.val >= 0)

SecondsToWait(ra) == IF ra.kind = "absent" THEN RETRY_DELAY ELSE 10 * ra.val

C11_ServerErrorRetries ==
  [][ (pc = "mar_resp" /\ resp.status >= 500) =>
        /\ attempt + 1 <= MAX_RETRIES
        /\ IF attempt + 1 < MAX_RETRIES
             THEN /\ slept' = Append(slept, RETRY_DELAY)
                  /\ pc' = "mar_send"
                  /\ NextRequest' = req
             ELSE /\ pc' = ReturnPc
                  /\ result' = NoneResult
                  /\ exc' = "none"
                  /\ slept' = slept ]_vars

C11_Witness ==
  /\ pc = "gai_lookup_ret"
  /\ resp.status = 503
  /\ attempt = MAX_RETRIES - 1
  /\ result = NoneResult
  /\ slept = <<>>

\* C12: after a 4xx response other than 429 the call returns None at once:
\* no sleep and no further request.
C12_ClientErrorNoRetry ==
  [][ (pc = "mar_resp" /\ resp.status \in 400..499 /\ resp.status # 429) =>
        /\ pc' = ReturnPc
        /\ result' = NoneResult
        /\ slept' = slept ]_vars

\* C13: when the last request of a get_posts_via_api call failed (an error
\* status, no response, or a body that is not JSON) the call returns an
\* empty list, also after earlier pages were received.
FailedResponse(r) == r.status # 200 \/ r.body.kind = "invalid"

C13_FailureYieldsNothing ==
  (pc = "gpa_done" /\ FailedResponse(resp)) => all_posts.len = 0

\* C19: a call that received m full pages and then a page of r < 40 items
\* has fetched m + 1 pages and returns 40 * m + r posts (92 for 40/40/12);
\* when this is the call of strategy 1 the result is kept under the label
\* "api" and no further strategy is invoked.
C19_PagesConcatenated ==
  /\ (pc = "gpa_done" /\ result.kind = "list" /\ result.n < PageLimit
        /\ page < MaxPages /\ all_posts.len < MaxTotal) =>
       all_posts.len = PageLimit * (page - 1) + result.n
  /\ ret[1] = "nonempty" =>
       /\ posts.len = all_posts.len
       /\ method_used = "api"
       /\ \A s \in 2..4 : ret[s] = "notcalled"

C19_Witness ==
  /\ writes = 1
  /\ token
  /\ account_id # None
  /\ page = 3
  /\ doc.total_posts = 92
  /\ doc.method = "api"
  /\ ret = <<"nonempty", "notcalled", "notcalled", "notcalled">>

\* C14: extract_images_from_posts returns exactly one record per attachment
\* whose type (taken as "image" when the attachment has none) is "image" or
\* "gifv", in post order then attachment order, each with the id and url of
\* its post; a post without such an attachment contributes no record.
ImageLike(a) == a.type \in {"image", "gifv", "absent"}

ImagePlaces(ps) ==
  {q \in (1..Len(ps)) \X (1..3) : q[2] <= Len(ps[q[1]].media)
                                    /\ ImageLike(ps[q[1]].media[q[2]])}

Before(q, r) == q[1] < r[1] \/ (q[1] = r[1] /\ q[2] < r[2])

Rank(ps, q) == 1 + Cardinality({r \in ImagePlaces(ps) : Before(r, q)})

C14_OneRecordPerImage ==
  pc = "return" =>
    /\ Len(out) = Cardinality(ImagePlaces(arg))
    /\ \A q \in ImagePlaces(arg) :
         LET r == out[Rank(arg, q)] IN
           /\ r.id = arg[q[1]].media[q[2]].id
           /\ r.post_id = arg[q[1]].id
           /\ r.post_url = arg[q[1]].url

C14_Witness ==
  /\ pc = "return"
  /\ Len(arg) = 3
  /\ arg[1].id = 4
  /\ arg[2].id = 3
  /\ arg[3].id = 2
  /\ Len(out) = 3

\* C15: every post counted in total_posts has at least one image-like
\* attachment, so the written document never counts more posts than it has
\* image records.
C15_CountedPostsHaveImages ==
  writes = 1 => doc.total_images >= doc.total_posts

\* C16: cleaning a cleaned text returns it unchanged.
C16_Idempotent ==
  pc = "return" => out[2] = out[1]

\* C17: an entry is kept exactly when it has an image-type media enclosure:
\* a media:content element with a url whose type is image/... or whose medium
\* is image, or an enclosure link with an href whose type is image/...
ImageEnclosure(e) ==
  \/ \E i \in DOMAIN e.media :
       /\ e.media[i].url # None
       /\ (e.media[i].medium = "image" \/ StartsWithImage(e.media[i].type))
  \/ \E j \in DOMAIN e.enc :
       e.enc[j].href # None /\ StartsWithImage(e.enc[j].type)

C17_KeptIffImageEnclosure ==
  [][ (pc = "loop" /\ arg # <<>>) =>
        ((Len(out') = Len(out) + 1) <=> ImageEnclosure(Head(arg))) ]_vars

\* C18: when strategies 1 and 2 gave nothing and k >= 1 entries of the feed
\* have an image enclosure, the document written has total_posts = k, method
\* "atom_feed" and as many images as those k entries have image enclosures.
ImageEnclosures(e) ==
  {e.media[i].url : i \in {j \in DOMAIN e.media :
       /\ e.media[j].url # None
       /\ (e.media[j].medium = "image" \/ StartsWithImage(e.media[j].type))}}
  \cup {e.enc[i].href : i \in {j \in DOMAIN e.enc :
       e.enc[j].href # None /\ StartsWithImage(e.enc[j].type)}}

RECURSIVE EnclosureCount(_, _)
EnclosureCount(feed, i) ==
  IF i > Len(feed) THEN 0
  ELSE Cardinality(ImageEnclosures(feed[i])) + EnclosureCount(feed, i + 1)

EntriesWithImage(feed) == {i \in DOMAIN feed : ImageEnclosures(feed[i]) # {}}

C18_FeedDocument ==
  (/\ writes = 1
   /\ served.status = 200
   /\ served.parseable
   /\ EntriesWithImage(served.entries) # {}) =>
     /\ doc.total_posts = Cardinality(EntriesWithImage(served.entries))
     /\ doc.method = "atom_feed"
     /\ doc.total_images = EnclosureCount(served.entries, 1)

\* C20: the document written at the end of a run is made of the results of
\* that run alone; what the output file held before (left untouched until
\* the write) has no part in it, so the same feed gives the same document.
C20_FullyRewritten ==
  /\ writes = 0 => doc = arg
  /\ writes = 1 =>
       doc = [written |-> TRUE, total_posts |-> posts.len,
              total_images |-> images, method |-> method_used,
              account_id |-> account_id]
  /\ (writes = 1 /\ method_used = "atom_feed") =>
       LET r == AtomResult(served.status, served.parseable, served.entries)
       IN doc.total_posts = r.len /\ doc.total_images = r.imgs

C20_Witness ==
  /\ arg = OldDoc
  /\ writes = 1
  /\ doc.method = "atom_feed"
  /\ doc.total_posts = 1
  /\ doc.total_images = 2
  /\ doc.account_id = None

\* C21 as stated: an identifier that ends in /p/<handle>/<digits> gives the
\* post id <digits>; any other identifier gives the full identifier text.
AllDigits(t) == t # <<>> /\ \A k \in DOMAIN t : t[k] = "7"

Handle(t) == t # <<>> /\ \A k \in DOMAIN t : t[k] # "/"

EndsInPostPath(t) ==
  \E i \in 1..Len(t), j \in 1..Len(t) :
    /\ i + 3 < j /\ j < Len(t)
    /\ SubSeq(t, i, i + 2) = <<"/", "p", "/">>
    /\ Handle(SubSeq(t, i + 3, j - 1))
    /\ t[j] = "/"
    /\ AllDigits(SubSeq(t, j + 1, Len(t)))

RECURSIVE LastSegment(_)
LastSegment(t) ==
  IF t = <<>> \/ t[Len(t)] = "/" THEN <<>>
  ELSE Append(LastSegment(SubSeq(t, 1, Len(t) - 1)), t[Len(t)])

C21_IdOfPostPath ==
  (pc = "return" /\ arg # <<>>) =>
    out = IF EndsInPostPath(arg) THEN LastSegment(arg) ELSE arg

\* C21 amended: an identifier that contains /p/<handle>/ followed by a digit
\* gives the whole run of digits that follows the first such place; an
\* identifier that contains none gives the full identifier text.
PostPathAt(t, i, j) ==
  /\ i + 3 < j /\ j < Len(t)
  /\ SubSeq(t, i, i + 2) = <<"/", "p", "/">>
  /\ Handle(SubSeq(t, i + 3, j - 1))
  /\ t[j] = "/"
  /\ t[j + 1] = "7"

C21_IdOfFirstPostPath ==
  (pc = "return" /\ arg # <<>>) =>
    LET places == {q \in (1..Len(arg)) \X (1..Len(arg)) :
                     PostPathAt(arg, q[1], q[2])}
    IN IF places = {} THEN out = arg
       ELSE \E q \in places :
              /\ \A r \in places : q[1] <= r[1]
              /\ AllDigits(out)
              /\ q[2] + Len(out) <= Len(arg)
              /\ out = SubSeq(arg, q[2] + 1, q[2] + Len(out))
              /\ (q[2] + Len(out) < Len(arg) => arg[q[2] + Len(out) + 1] # "7")

C21_Witness ==
  /\ pc = "return"
  /\ arg = <<"/", "p", "/", "p", "/", "7", "7">>
  /\ out = <<"7", "7">>

\* C22: no DELETE request is ever issued for a project whose name is in
\* KEEP_REPOS; the DELETE requests follow the fetched list, and once main has
\* its list the run ends with exactly one DELETE for each other project,
\* whichever deletions failed.
KeepNames == {KEEP_REPOS[k] : k \in DOMAIN KEEP_REPOS}

ToDelete(p) == p.name \notin KeepNames

RECURSIVE Ids(_)
Ids(l) == IF l = <<>> THEN <<>> ELSE <<Head(l).id>> \o Ids(Tail(l))

C22_KeptNeverDeleted ==
  LET due == Ids(SelectSeq(out.projects, ToDelete)) IN
    /\ \A k \in DOMAIN out.deletes :
         \A p \in SampleProjects :
           p.id = out.deletes[k] => p.name \notin KeepNames
    /\ Len(out.deletes) <= Len(due)
    /\ out.deletes = SubSeq(due, 1, Len(out.deletes))
    /\ (out.complete /\ pc \in {"done", "crashed"}) => out.deletes = due

\* C26: when a page request is refused, also after earlier pages were
\* fetched, get_all_projects returns the empty list and the run ends without
\* any DELETE request; DELETE requests are issued only once the whole list
\* has been fetched up to the empty page.
C26_RefusedPageDeletesNothing ==
  /\ out.failed =>
       /\ pc = "done"
       /\ out.projects = <<>>
       /\ out.deletes = <<>>
  /\ out.deletes # <<>> =>
       /\ out.complete
       /\ ~out.failed
       /\ out.projects = arg

C26_Witness ==
  /\ out.failed
  /\ out.page = 3
  /\ Len(arg) = 4
  /\ pc = "done"

\* C23: every first request of an API call that follows an earlier request
\* of the run (the next page, the search after the lookup, the first
\* statuses request, the fetch of strategy 2 after that of strategy 1) is
\* sent after a sleep of RATE_LIMIT_DELAY since that earlier request.
C23_DelayBetweenCalls ==
  [][ (pc = "mar_send" /\ pc' = "mar_resp" /\ attempt = 0 /\ req # NoReq) =>
        \E k \in DOMAIN slept : slept[k] = RATE_LIMIT_DELAY ]_vars

\* C24: post_content is the cleaned text of the post; post_content_html is
\* the raw text when it differs from the cleaned text, and null when the two
\* are equal or the post has no text.
HasText(c) == c.kind = "text" /\ c.text # <<>>

C24_RawOnlyWhenDifferent ==
  pc = "return" =>
    IF HasText(arg)
      THEN /\ out.post_content = TextValue(strip_html(arg.text))
           /\ out.post_content_html =
                IF arg.text # strip_html(arg.text) THEN arg ELSE NoneValue
      ELSE out.post_content_html = NoneValue

\* C25: within one call of make_api_request a request is sent only while
\* fewer than MAX_RETRIES have been sent, every retry, whatever caused it,
\* uses up one attempt of the same budget, and the call ends by returning
\* to its caller.
C25_BoundedThenReturns ==
  [][ /\ (pc = "mar_send" /\ pc' = "mar_resp") => attempt < MAX_RETRIES
      /\ (pc = "mar_resp" /\ pc' = "mar_send") =>
           attempt' = attempt + 1 /\ attempt' < MAX_RETRIES
      /\ (pc = "mar_resp" /\ pc' # "mar_send") =>
           pc' = ReturnPc /\ exc' = "none" ]_vars

\* C27: over all runs, and within one run, a document link is successfully
\* sent to Telegram at most once, and a link that sent_notices.txt already
\* holds is not sent at all.
SentOk(link) ==
  {k \in DOMAIN out.log : out.log[k].link = link /\ out.log[k].outcome = "ok"}

C27_SentAtMostOnce ==
  \A link \in {"a", "b"} :
    /\ Cardinality(SentOk(link)) <= 1
    /\ link \in Lines(arg.file) => SentOk(link) = {}

\* C28: the file grows by exactly the links whose send succeeded, in the
\* order of the sends; a failed download or send and a row that is not sent
\* leave it unchanged, so a link whose sends have all failed is not in the
\* file and is tried again by a later run.
RECURSIVE OkLinks(_)
OkLinks(log) ==
  IF log = <<>> THEN <<>>
  ELSE IF Head(log).outcome = "ok" THEN <<Head(log).link>> \o OkLinks(Tail(log))
  ELSE OkLinks(Tail(log))

C28_RecordedIffSent ==
  /\ out.file = arg.file \o OkLinks(out.log)
  /\ \A k \in DOMAIN out.log :
       SentOk(out.log[k].link) = {} => out.log[k].link \notin Lines(out.file)

C28_Witness ==
  /\ Len(out.log) = 2
  /\ out.log[1] = [link |-> "b", outcome |-> "refused", run |-> 1]
  /\ out.log[2] = [link |-> "b", outcome |-> "ok", run |-> 2]
  /\ out.file = <<"a", "b">>
  /\ pc = "end"

\* C29: the n-th run writes and returns the integer stored before the first
\* run plus n, counting from 0 when the file was missing, empty or not an
\* integer, whatever the dates of the runs; the major version is
\* (year - 2025) * 4 + quarter with the quarter of the month in 1..4.
StoredBefore ==
  CASE arg = File(TRUE, <<"9">>) -> 9
    [] arg = File(TRUE, <<"1", "9", " ">>) -> 19
    [] arg = File(TRUE, <<"-", "1">>) -> -1
    [] OTHER -> 0

Decimal(n) ==
  IF n < 10 THEN <<DigitChars[n + 1]>>
  ELSE <<DigitChars[(n \div 10) + 1], DigitChars[(n % 10) + 1]>>

Quarter(month) ==
  CASE month \in {1, 2, 3} -> 1
    [] month \in {4, 5, 6} -> 2
    [] month \in {7, 8, 9} -> 3
    [] month \in {10, 11, 12} -> 4

C29_MinorCountsRuns ==
  out.runs >= 1 =>
    /\ out.minor = StoredBefore + out.runs
    /\ out.file = File(TRUE, Decimal(out.minor))
    /\ out.major = (out.year - 2025) * 4 + Quarter(out.month)

C29_Witness ==
  /\ arg = NoFile
  /\ out.runs = 3
  /\ out.minor = 3
  /\ out.file.text = <<"3">>
  /\ out.last_major = 4
  /\ out.major = 5

\* C30: the posts returned wrap the distinct image URLs found, one post per
\* URL in the order of first occurrence; each has no id, no text, no
\* timestamp and exactly one attachment, of type image, so extraction gives
\* as many image records as there are posts.
FirstAt(url) == CHOOSE k \in DOMAIN arg : arg[k] = url /\ \A l \in 1..(k - 1) : arg[l] # url

Wrapped(k) == out.all_posts[k].media[1].url

C30_OnePostPerImage ==
  pc = "return" =>
    /\ {Wrapped(k) : k \in DOMAIN out.all_posts} = {arg[k] : k \in DOMAIN arg}
    /\ \A a \in DOMAIN out.all_posts, b \in DOMAIN out.all_posts :
         a < b => FirstAt(Wrapped(a)) < FirstAt(Wrapped(b))
    /\ \A k \in DOMAIN out.all_posts :
         /\ out.all_posts[k].id = None
         /\ out.all_posts[k].content = None
         /\ out.all_posts[k].created_at = None
         /\ Len(out.all_posts[k].media) = 1
         /\ out.all_posts[k].media[1].type = "image"
    /\ Len(ExtractImages(out.all_posts, 1)) = Len(out.all_posts)

C30_Witness ==
  /\ pc = "return"
  /\ arg = <<2, 1, 2, 3>>
  /\ Len(out.all_posts) = 3
  /\ Wrapped(1) = 2
  /\ Wrapped(2) = 1
  /\ Wrapped(3) = 3

====
